---- MODULE Spec2Model ----
(***************************************************************************)
(* Model of the scoring reconciliation pipeline of scoring_job.py: the     *)
(* status reconciler (update_game_statuses), the active window selector    *)
(* (get_active_games), the fetch planner (get_players_to_fetch), the score *)
(* fetcher (RapidAPIClient.get_player_stats, parse_stats_from_response)    *)
(* and the score store merger (update_scores), driven by main().           *)
(*                                                                         *)
(* The persisted tables are the variables schedule and scores (sheet rows  *)
(* in sheet order); picks and the players table are read-only inputs.      *)
(* Cell values are kept as the job compares them (str(...) of the cell);   *)
(* the domains below contain no surrounding blanks, so .strip() is the     *)
(* identity on them, while .lower() / .upper() are modelled by Lower.      *)
(***************************************************************************)
EXTENDS Integers, Sequences, FiniteSets, TLC

VARIABLES
    schedule,          \* sheet "schedule": rows in sheet order
    scores,            \* sheet "scores": rows in sheet order
    picks,             \* sheet "Picks": rows in sheet order (read-only input)
    env,               \* the provider / invocation: Free, or answers fixed for all runs
    clock,             \* ordinal of the current run; datetime.utcnow() of its fetches
    now,               \* datetime.now() read by get_active_games, in minutes
    pc,                \* position of main(): idle, reconcile, select, plan, update, fetch, write, done
    week_override,     \* args.week ("" when the flag is absent)
    schedule_df,       \* main's schedule_df (mutated in place by the reconciler)
    scores_df,         \* main's scores_df, read at the start of the run
    polled,            \* weeks for which getNFLGamesForWeek was requested in this run
    poll_log,          \* the provider's answer to each of these requests (kept until the selector runs)
    sheet_writes,      \* write_worksheet calls of this run, in order
    active_games,      \* result of get_active_games
    players_to_fetch,  \* result of get_players_to_fetch
    existing_scores,   \* update_scores' dict, in insertion order
    idx,               \* number of targets update_scores has finished
    attempt,           \* get_player_stats' loop variable for the current target
    results,           \* per finished target: the requests made and the last answer
    exit_log,          \* which "Scoring job completed" branch main took
    config,            \* where this invocation finds its configuration
    exit_code,         \* exit status of the process (StillRunning until it ends)
    sheet_reads,       \* read_worksheet calls of this run, in order
    loaded_scores,     \* the scores sheet as update_scores read it (its scores_df)
    other,             \* a second invocation of the job against the same sheets
    app                \* the lineup form of the web app: its caches and its last result

vars == <<schedule, scores, picks, env, clock, now, pc, week_override, schedule_df,
          scores_df, polled, poll_log, sheet_writes, active_games, players_to_fetch,
          existing_scores, idx, attempt, results, exit_log, config, exit_code, sheet_reads,
          loaded_scores, other, app>>

----------------------------------------------------------------------------
(* Bounds and program constants *)

MaxRuns == 2

\* one attempt more than the job makes
MAX_RETRIES_OneMore == 3 + 1

MAX_RETRIES == 3

PreKickoffMinutes == 15

PostKickoffMinutes == 240

----------------------------------------------------------------------------
(* Generic helpers *)

Range(s) == {s[i] : i \in DOMAIN s}

Last(s) == s[Len(s)]

\* str.lower() on the strings of the model
Lower(s) ==
    CASE s = "Wildcard" -> "wildcard"
      [] s = "Divisional" -> "divisional"
      [] s = "Postponed" -> "postponed"
      [] s = "Scheduled" -> "scheduled"
      [] s = "In Progress" -> "in progress"
      [] s = "In-Progress" -> "in-progress"
      [] s = "Final" -> "final"
      [] s = "Completed" -> "completed"
      [] OTHER -> s

\* the empty "gameTime" cell
NoTime == -1

NoOverride == ""

\* the process has not exited
StillRunning == -1

----------------------------------------------------------------------------
(* Input data: the rows of the read-only sheets and the provider's answers *)

\* sheet "players_2": playerName, playerID, team
players_df ==
    << [playerName |-> "Mahomes",    playerID |-> "1",   team |-> "KC"],
       [playerName |-> "P. Mahomes", playerID |-> "1",   team |-> "KC"],
       [playerName |-> "Allen",      playerID |-> "2",   team |-> "BUF"],
       [playerName |-> "Hurts",      playerID |-> "3",   team |-> "PHI"],
       [playerName |-> "Rookie",     playerID |-> "nan", team |-> "DAL"] >>

PickRow(user, week, qb, rb1, te) ==
    [User |-> user, Week |-> week, QB |-> qb, RB1 |-> rb1, RB2 |-> "",
     WR1 |-> "", WR2 |-> "", TE |-> te]

\* the contents of sheet "Picks" the runs are tried on
PickTables ==
    { << PickRow("alice", "Wildcard", "Mahomes", "Allen", ""),
         PickRow("carol", "Divisional", "Hurts", "", "") >>,
      << PickRow("alice", "Wildcard", "Mahomes", "", "Nobody"),
         PickRow("bob", "wildcard", "Mahomes", "P. Mahomes", "Rookie"),
         PickRow("alice", "Divisional", "Hurts", "", "") >> }

GameRow(id, week, time, home, away, status) ==
    [gameID |-> id, gameWeek |-> week, gameTime |-> time, homeTeam |-> home,
     awayTeam |-> away, gameStatus |-> status]

\* sheet "schedule" as the schedule import wrote it, with the given statuses
ScheduleRows(s1, s2, s3) ==
    << GameRow("G1", "Wildcard", 1000, "KC", "BUF", s1),
       GameRow("G2", "Wildcard", 999, "PHI", "DAL", s2),
       GameRow("G3", "Divisional", NoTime, "KC", "PHI", s3) >>

\* instants at which get_active_games reads the clock: on and next to the
\* window borders of G1 (985..1240) and G2 (984..1239)
NowPoints == {984, 1240, 1241}

WeekOverrides == {NoOverride, "Wildcard", "wildcard"}

\* "gameStatus" values the provider reports for a game
ApiStatuses(id) ==
    CASE id = "G1" -> {"Scheduled", "In Progress", "In-Progress", "Final", "Completed", "Postponed"}
      [] id = "G2" -> {"Scheduled", "Final"}
      [] OTHER -> {"Final"}

GameIdsOfWeek(week) == {r.gameID : r \in {x \in Range(ScheduleRows("", "", "")) : x.gameWeek = week}}

ScheduleWeeks == {r.gameWeek : r \in Range(ScheduleRows("", "", ""))}

\* the "body" lists of getNFLGamesForWeek: some games of the week, each with a status
PollBodies(week) ==
    UNION { { {[gameID |-> g, gameStatus |-> f[g]] : g \in S} :
                f \in {ff \in [S -> UNION {ApiStatuses(i) : i \in S}] :
                          \A g \in S : ff[g] \in ApiStatuses(g)} } :
            S \in SUBSET GameIdsOfWeek(week) }

\* answers to getNFLGamesForWeek: a transport/HTTP error, an API status code
\* other than 200, or a body
PollAnswers ==
    [week \in ScheduleWeeks |->
        { [kind |-> "error", body |-> {}], [kind |-> "badstatus", body |-> {}] }
        \cup { [kind |-> "ok", body |-> b] : b \in PollBodies(week) }]

\* a stat section: present is its truth value (an absent key, None or {} is
\* false), dict tells whether it is a dict, passYds is its "passYds" entry
Section(yds) == [present |-> TRUE, dict |-> TRUE, passYds |-> yds]

Missing == [present |-> FALSE, dict |-> TRUE, passYds |-> 0]

\* a section that is a non-empty value without .get (a string, a list)
Malformed == [present |-> TRUE, dict |-> FALSE, passYds |-> 0]

Body(gid, pts, passing) == [gameID |-> gid, fantasyPoints |-> pts, Passing |-> passing]

NoBody == Body("", 0, Missing)

\* body[0] of getNFLGamesForPlayer for a player
StatsBodies(pid) ==
    CASE pid = "1" -> { Body("G1", 7, Missing),
                        Body("G2", 9, Section(250)),
                        Body("G3", 7, Missing),
                        Body("", 7, Missing),
                        Body("G1", 7, Malformed) }
      [] pid = "2" -> { Body("G1", 5, Section(120)) }
      [] OTHER -> { Body("G3", 3, Missing) }

\* the ways a getNFLGamesForPlayer request fails or comes back without stats:
\* RequestException ("error"), statusCode other than 200, empty body
StatsFailures(pid) ==
    CASE pid = "1" -> {"badstatus", "empty"}
      [] pid = "2" -> {"error", "badstatus"}
      [] OTHER -> {}

\* answers to one getNFLGamesForPlayer request
StatsAnswers(pid) ==
    { [kind |-> k, body |-> NoBody] : k \in StatsFailures(pid) }
    \cup { [kind |-> "ok", body |-> b] : b \in StatsBodies(pid) }

Free == [mode |-> "free"]

\* where an invocation finds its configuration: secrets_file tells whether
\* .streamlit/secrets.toml exists, key and url whether it holds the API key and
\* the spreadsheet URL, env_vars whether RAPIDAPI_KEY, SPREADSHEET_URL and the
\* GCP_* variables are set, connects whether GoogleSheetsClient(...) succeeds
ConfigCase(secrets_file, key, url, env_vars, connects) ==
    [secrets_file |-> secrets_file, key |-> key, url |-> url, env_vars |-> env_vars,
     connects |-> connects]

FromFile == ConfigCase(TRUE, TRUE, TRUE, FALSE, TRUE)

ConfigCases ==
    { FromFile,
      ConfigCase(TRUE, FALSE, TRUE, FALSE, TRUE),
      ConfigCase(TRUE, TRUE, FALSE, FALSE, TRUE),
      ConfigCase(FALSE, FALSE, FALSE, FALSE, TRUE),
      ConfigCase(FALSE, FALSE, FALSE, TRUE, TRUE),
      ConfigCase(TRUE, TRUE, TRUE, FALSE, FALSE) }

----------------------------------------------------------------------------
(* Status Reconciler: update_game_statuses *)

\* WeeksToCheck that takes every week as soon as one game is not final
WeeksToCheck_AllWeeks(df) ==
    IF \E j \in DOMAIN df : Lower(df[j].gameStatus) # "final"
    THEN {df[i].gameWeek : i \in DOMAIN df} \ {""}
    ELSE {}

\* WeeksToCheck without the test of the status
WeeksToCheck_EveryWeek(df) == {df[i].gameWeek : i \in DOMAIN df} \ {""}

\* weeks that have a game whose status is not final
WeeksToCheck(df) ==
    {df[i].gameWeek : i \in {j \in DOMAIN df : Lower(df[j].gameStatus) # "final"}} \ {""}

\* the weeks the week_params table configures
week_params == {"Week 17", "Week 18", "Wildcard", "Divisional", "Conference", "Super Bowl"}

\* the weeks for which a request is issued
WeeksToPoll(df) == IF df = <<>> THEN {} ELSE WeeksToCheck(df) \cap week_params

\* normalize_status that knows one spelling per status only
normalize_status_NoAliases(api_status) ==
    CASE api_status = "Scheduled" -> "scheduled"
      [] api_status = "In Progress" -> "in_progress"
      [] api_status = "Final" -> "final"
      [] OTHER -> Lower(api_status)

normalize_status(api_status) ==
    CASE api_status = "Scheduled" -> "scheduled"
      [] api_status \in {"In Progress", "In-Progress"} -> "in_progress"
      [] api_status \in {"Final", "Completed"} -> "final"
      [] OTHER -> Lower(api_status)

\* StatusUpdates that gives up all updates when one request failed
StatusUpdates_AllOrNothing(answers) ==
    IF \E w \in DOMAIN answers : answers[w].kind # "ok"
    THEN {}
    ELSE { [gameID |-> e.gameID, gameStatus |-> normalize_status(e.gameStatus)] :
             e \in UNION { answers[w].body : w \in DOMAIN answers } }

\* status_updates: gameID -> normalized status, from the answers that came
\* back with statusCode 200 (an exception or another code adds nothing)
StatusUpdates(answers) ==
    { [gameID |-> e.gameID, gameStatus |-> normalize_status(e.gameStatus)] :
        e \in UNION { answers[w].body : w \in {x \in DOMAIN answers : answers[x].kind = "ok"} } }

\* ApplyStatusUpdates that does not match the update to the row's gameID
ApplyStatusUpdates_AnyGame(df, updates) ==
    [i \in DOMAIN df |->
        IF \E u \in updates : u.gameStatus # df[i].gameStatus
        THEN [df[i] EXCEPT !.gameStatus =
                 (CHOOSE u \in updates : u.gameStatus # df[i].gameStatus).gameStatus]
        ELSE df[i]]

\* ApplyStatusUpdates that keeps only the games the provider returned
ApplyStatusUpdates_ReturnedOnly(df, updates) ==
    LET applied == [i \in DOMAIN df |->
                       IF \E u \in updates : u.gameID = df[i].gameID /\ u.gameStatus # df[i].gameStatus
                       THEN [df[i] EXCEPT !.gameStatus =
                                (CHOOSE u \in updates : u.gameID = df[i].gameID /\ u.gameStatus # df[i].gameStatus).gameStatus]
                       ELSE df[i]]
    IN IF updates = {} THEN df
       ELSE SelectSeq(applied, LAMBDA row : \E u \in updates : u.gameID = row.gameID)

\* the loop over schedule_df.iterrows() that overwrites changed statuses
ApplyStatusUpdates(df, updates) ==
    [i \in DOMAIN df |->
        IF \E u \in updates : u.gameID = df[i].gameID /\ u.gameStatus # df[i].gameStatus
        THEN [df[i] EXCEPT !.gameStatus =
                 (CHOOSE u \in updates : u.gameID = df[i].gameID /\ u.gameStatus # df[i].gameStatus).gameStatus]
        ELSE df[i]]

----------------------------------------------------------------------------
(* Active Window Selector: get_active_games *)

\* InWindow with the upper border left out
InWindow_OpenEnd(game_time, t) ==
    /\ game_time - PreKickoffMinutes <= t
    /\ t < game_time + PostKickoffMinutes

InWindow(game_time, t) ==
    /\ game_time - PreKickoffMinutes <= t
    /\ t <= game_time + PostKickoffMinutes

IsActive(row, t) ==
    LET game_status == Lower(row.gameStatus) IN
    \/ game_status = "in_progress"
    \/ game_status = "final"
    \/ /\ game_status = "scheduled"
       /\ row.gameTime # NoTime
       /\ InWindow(row.gameTime, t)

get_active_games(df, t) == SelectSeq(df, LAMBDA row : IsActive(row, t))

----------------------------------------------------------------------------
(* Fetch Planner: get_players_to_fetch *)

position_cols == <<"QB", "RB1", "RB2", "WR1", "WR2", "TE">>

\* keys of team_game_status: (week, team) of the home and away team of every active game
TeamGameKeys(active) ==
    {<<g.gameWeek, g.homeTeam>> : g \in {x \in Range(active) : x.gameWeek # "" /\ x.homeTeam # ""}}
    \cup
    {<<g.gameWeek, g.awayTeam>> : g \in {x \in Range(active) : x.gameWeek # "" /\ x.awayTeam # ""}}

ActiveWeeks(active, override) ==
    IF override # NoOverride
    THEN {override}
    ELSE {g.gameWeek : g \in Range(active)} \ {""}

\* the active week a pick's week matches case-insensitively ("" when none)
MatchingWeek(pick_week, active_weeks) ==
    IF \E aw \in active_weeks : Lower(aw) = Lower(pick_week)
    THEN CHOOSE aw \in active_weeks : Lower(aw) = Lower(pick_week)
    ELSE ""

PickedNames(row) == {row[position_cols[c]] : c \in DOMAIN position_cols} \ {""}

RECURSIVE DistinctInOrder(_)
DistinctInOrder(s) ==
    IF s = <<>> THEN <<>>
    ELSE LET front == DistinctInOrder(SubSeq(s, 1, Len(s) - 1)) IN
         IF Last(s) \in Range(front) THEN front ELSE Append(front, Last(s))

\* keys of picked_players_by_week, in insertion order
PickedWeeks(picks_df, active_weeks) ==
    DistinctInOrder(SelectSeq([i \in DOMAIN picks_df |-> MatchingWeek(picks_df[i].Week, active_weeks)],
                              LAMBDA w : w # ""))

\* picked_players_by_week[week]
PickedPlayers(picks_df, active_weeks, week) ==
    UNION { PickedNames(picks_df[i]) :
              i \in {j \in DOMAIN picks_df : MatchingWeek(picks_df[j].Week, active_weeks) = week} }

\* rows of the players table that enter player_lookup
LookupRows(pl) ==
    {i \in DOMAIN pl : pl[i].playerName # "" /\ pl[i].playerID # "" /\ pl[i].playerID # "nan"}

InLookup(pl, name) == \E i \in LookupRows(pl) : pl[i].playerName = name

\* player_lookup[name]: the last row of that name wins
player_lookup(pl, name) ==
    LET last == CHOOSE i \in LookupRows(pl) :
                    /\ pl[i].playerName = name
                    /\ \A j \in LookupRows(pl) : pl[j].playerName = name => j <= i
    IN [playerID |-> pl[last].playerID, team |-> pl[last].team]

\* HasFinalScore with the skip on final records left out
HasFinalScore_NoSkip(sc, player_id, week) == FALSE

\* should_skip: the first existing row of (playerID, week) was captured as final
HasFinalScore(sc, player_id, week) ==
    LET existing_score == {i \in DOMAIN sc : sc[i].playerID = player_id /\ sc[i].gameWeek = week} IN
    /\ existing_score # {}
    /\ Lower(sc[CHOOSE i \in existing_score : \A j \in existing_score : i <= j].gameStatus) = "final"

\* IsCandidate without the test of the team's active game
IsCandidate_NoTeamCheck(pl, active, sc, week, name) ==
    /\ InLookup(pl, name)
    /\ ~HasFinalScore(sc, player_lookup(pl, name).playerID, week)

\* the body of the loop over the picked names: is the name appended to result
IsCandidate(pl, active, sc, week, name) ==
    /\ InLookup(pl, name)
    /\ <<week, player_lookup(pl, name).team>> \in TeamGameKeys(active)
    /\ ~HasFinalScore(sc, player_lookup(pl, name).playerID, week)

Target(pl, week, name) ==
    [playerID |-> player_lookup(pl, name).playerID, playerName |-> name, gameWeek |-> week]

\* the targets of one week; order is the iteration order of the set of names
\* (of those that resolve: the others only log a warning)
TargetsOfWeek(pl, picks_df, active, sc, active_weeks, week, order) ==
    LET names == SelectSeq(order, LAMBDA n : n \in PickedPlayers(picks_df, active_weeks, week))
        kept  == SelectSeq(names, LAMBDA n : IsCandidate(pl, active, sc, week, n))
    IN [i \in DOMAIN kept |-> Target(pl, week, kept[i])]

\* Deduplicate that returns result as it is
Deduplicate_Keep(result) == result

RECURSIVE Deduplicate(_)
\* keeps the first item of every (playerID, gameWeek)
Deduplicate(result) ==
    IF result = <<>> THEN <<>>
    ELSE LET front == Deduplicate(SubSeq(result, 1, Len(result) - 1))
             item  == Last(result)
         IN IF \E i \in DOMAIN front :
                   front[i].playerID = item.playerID /\ front[i].gameWeek = item.gameWeek
            THEN front
            ELSE Append(front, item)

RECURSIVE ResultList(_, _, _, _, _, _, _)
ResultList(pl, picks_df, active, sc, active_weeks, weeks, order) ==
    IF weeks = <<>> THEN <<>>
    ELSE ResultList(pl, picks_df, active, sc, active_weeks, SubSeq(weeks, 1, Len(weeks) - 1), order)
         \o TargetsOfWeek(pl, picks_df, active, sc, active_weeks, Last(weeks), order)

get_players_to_fetch(pl, picks_df, active, sc, override, order) ==
    IF pl = <<>> \/ picks_df = <<>> THEN <<>>
    ELSE IF active = <<>> /\ override = NoOverride THEN <<>>
    ELSE LET active_weeks == ActiveWeeks(active, override) IN
         IF active_weeks = {} THEN <<>>
         ELSE Deduplicate(ResultList(pl, picks_df, active, sc, active_weeks,
                                     PickedWeeks(picks_df, active_weeks), order))

\* the iteration orders a set of names can have
Orders(S) == {o \in [1..Cardinality(S) -> S] : \A i, j \in 1..Cardinality(S) : o[i] = o[j] => i = j}

AllPickedNames(picks_df) == UNION {PickedNames(picks_df[i]) : i \in DOMAIN picks_df}

----------------------------------------------------------------------------
(* Score Fetcher and Score Store Merger: get_player_stats,                 *)
(* parse_stats_from_response, update_scores                                *)

\* week_to_games that does not separate the weeks
week_to_games_AnyWeek(active, week) ==
    {g.gameID : g \in {x \in Range(active) : x.gameWeek # "" /\ x.gameID # ""}}

\* week_to_games[week]
week_to_games(active, week) ==
    {g.gameID : g \in {x \in Range(active) : x.gameWeek = week /\ x.gameWeek # "" /\ x.gameID # ""}}

\* game_id_to_status that takes the status of the first active game
game_id_to_status_FirstGame(active, game_id) ==
    IF active = <<>> THEN "unknown" ELSE Lower(active[1].gameStatus)

\* game_id_to_status whose keys never match the returned identifier
game_id_to_status_Unknown(active, game_id) == "unknown"

\* game_id_to_status.get(game_id, "unknown")
game_id_to_status(active, game_id) ==
    LET rows == {i \in DOMAIN active : active[i].gameID = game_id /\ active[i].gameWeek # ""} IN
    IF rows = {} THEN "unknown"
    ELSE Lower(active[CHOOSE i \in rows : \A j \in rows : j <= i].gameStatus)

ScoreKey(player_id, week) == player_id \o "_" \o week

\* DictPut that adds a row also when the key is present
DictPut_Append(d, key, value) == Append(d, [key |-> key, value |-> value])

\* dict assignment d[key] = value on a dict kept in insertion order
DictPut(d, key, value) ==
    IF \E i \in DOMAIN d : d[i].key = key
    THEN [i \in DOMAIN d |-> IF d[i].key = key THEN [key |-> key, value |-> value] ELSE d[i]]
    ELSE Append(d, [key |-> key, value |-> value])

\* DictFromRows that starts from an empty dict whatever the sheet holds
DictFromRows_Empty(rows) == <<>>

RECURSIVE DictFromRows(_)
\* existing_scores as loaded from the rows of the sheet
DictFromRows(rows) ==
    IF rows = <<>> THEN <<>>
    ELSE DictPut(DictFromRows(SubSeq(rows, 1, Len(rows) - 1)),
                 ScoreKey(Last(rows).playerID, Last(rows).gameWeek), Last(rows))

RECURSIVE SeqOfSet(_, _)
\* the entries of d at the positions of S, in order
SeqOfSet(d, S) ==
    IF S = {} THEN <<>>
    ELSE LET m == CHOOSE i \in S : \A j \in S : j <= i
         IN Append(SeqOfSet(d, S \ {m}), d[m].value)

DictValues_Select(d, S) == SeqOfSet(d, S)

\* DictValues of the entries assigned in the run only
DictValues_OnlyStamped(d) ==
    DictValues_Select(d, {i \in DOMAIN d : d[i].value.lastUpdated = clock})

DictValues(d) == [i \in DOMAIN d |-> d[i].value]

\* parse_stats_from_response that never reads the Passing section
parse_stats_from_response_NoPassing(stats) ==
    [fantasyPoints |-> stats.fantasyPoints, passYards |-> 0, gameID |-> stats.gameID]

\* the stat fields of the flat dict (passYards stands for the stat breakdown)
parse_stats_from_response(stats) ==
    [fantasyPoints |-> stats.fantasyPoints,
     passYards |-> IF stats.Passing.present THEN stats.Passing.passYds ELSE 0,
     gameID |-> stats.gameID]

\* parse_stats_from_response raises AttributeError: a section is true and has
\* no .get
ParseRaises(stats) == stats.Passing.present /\ ~stats.Passing.dict

\* what get_player_stats returns for the answer that ends its loop
\* (None is modelled by present = FALSE)
StatsOf(answer) ==
    IF answer.kind = "ok" THEN [present |-> TRUE, stats |-> answer.body]
    ELSE [present |-> FALSE, stats |-> NoBody]

\* is the fetched result accepted by the validation of the returned game
Accepted(active, target, answer) ==
    LET got == StatsOf(answer) IN
    /\ got.present
    /\ parse_stats_from_response(got.stats).gameID # ""
    /\ parse_stats_from_response(got.stats).gameID \in week_to_games(active, target.gameWeek)

score_record(active, target, parsed, stamp) ==
    [playerID |-> target.playerID,
     playerName |-> target.playerName,
     gameID |-> parsed.gameID,
     gameWeek |-> target.gameWeek,
     gameStatus |-> game_id_to_status(active, parsed.gameID),
     fantasyPoints |-> parsed.fantasyPoints,
     passYards |-> parsed.passYards,
     lastUpdated |-> stamp]

\* MergeResult without the validation of the returned game
MergeResult_AcceptAll(d, active, target, answer, stamp) ==
    IF StatsOf(answer).present
    THEN DictPut(d, ScoreKey(target.playerID, target.gameWeek),
                 score_record(active, target, parse_stats_from_response(StatsOf(answer).stats), stamp))
    ELSE d

\* the body of update_scores' loop for one target, once get_player_stats returned
MergeResult(d, active, target, answer, stamp) ==
    IF Accepted(active, target, answer)
    THEN DictPut(d, ScoreKey(target.playerID, target.gameWeek),
                 score_record(active, target, parse_stats_from_response(StatsOf(answer).stats), stamp))
    ELSE d

----------------------------------------------------------------------------
(* What the environment may answer: anything (env = Free), or the same     *)
(* answers in every run (env.mode = "fixed")                               *)

\* a provider that answers every request: for a week, every game of the
\* week with one of the statuses it documents; for a player, a game log
Answering == [mode |-> "answering"]

AnsweringPollAnswers ==
    [week \in ScheduleWeeks |->
        {a \in PollAnswers[week] :
            /\ a.kind = "ok"
            /\ {e.gameID : e \in a.body} = GameIdsOfWeek(week)
            /\ \A e \in a.body : e.gameStatus \in {"Scheduled", "In Progress", "Final"}}]

AnsweringStatsAnswers(pid) ==
    {a \in StatsAnswers(pid) : a.kind = "ok" /\ a.body.gameID # "" /\ a.body.Passing # Malformed}

PollChoices(week) ==
    CASE env.mode = "free" -> PollAnswers[week]
      [] env.mode = "answering" -> AnsweringPollAnswers[week]
      [] OTHER -> {env.poll[week]}

StatsChoices(pid) ==
    CASE env.mode = "free" -> StatsAnswers(pid)
      [] env.mode = "answering" -> AnsweringStatsAnswers(pid)
      [] OTHER -> {env.stats[pid]}

NowChoices == IF env.mode \in {"free", "answering"} THEN {t \in NowPoints : t >= now} ELSE {env.now}

OverrideChoices ==
    CASE env.mode = "free" -> WeekOverrides
      [] env.mode = "answering" -> {NoOverride}
      [] OTHER -> {env.override}

ConfigChoices == IF env.mode = "free" THEN ConfigCases ELSE {FromFile}

\* an entry of st.cache_data: the value and the time it was stored
CacheEntry(at, rows) == [at |-> at, rows |-> rows]

NoEntry == CacheEntry(NoTime, <<>>)

\* what submit_lineup returned, and whether it called conn.update
LineupResult(op, username, week, is_edit, ok, message, wrote) ==
    [op |-> op, username |-> username, week |-> week, is_edit |-> is_edit, ok |-> ok,
     message |-> message, wrote |-> wrote]

\* the web app before any request
NoApp ==
    [load_cache |-> NoEntry, read_cache |-> NoEntry,
     last |-> LineupResult("none", "", "", FALSE, FALSE, "", FALSE)]

\* no second invocation
NoOtherRun ==
    [pc |-> "absent", overlapped |-> FALSE, active_games |-> <<>>, players_to_fetch |-> <<>>,
     loaded_scores |-> <<>>, existing_scores |-> <<>>, idx |-> 0]

\* the second invocation is between its start and its end
OtherActive == other.pc \in {"fetch", "write"}

\* the statuses the Divisional game may have when the first run starts
InitialStatuses == {"scheduled", "final"}

TypeOK ==
    /\ pc \in {"idle", "reconcile", "select", "plan", "update", "fetch", "write", "done"}
    /\ clock \in 0..MaxRuns
    /\ idx \in 0..Len(players_to_fetch)
    /\ attempt \in 0..(MAX_RETRIES - 1)
    /\ exit_code \in {StillRunning, 0, 1}
    /\ config \in ConfigCases

Init ==
    /\ \E s3 \in InitialStatuses : schedule = ScheduleRows("scheduled", "scheduled", s3)
    /\ scores = <<>>
    /\ picks \in PickTables
    /\ env = Free
    /\ clock = 0
    /\ now = 0
    /\ pc = "idle"
    /\ week_override = NoOverride
    /\ schedule_df = <<>>
    /\ scores_df = <<>>
    /\ polled = {}
    /\ poll_log = <<>>
    /\ sheet_writes = <<>>
    /\ active_games = <<>>
    /\ players_to_fetch = <<>>
    /\ existing_scores = <<>>
    /\ idx = 0
    /\ attempt = 0
    /\ results = <<>>
    /\ exit_log = "none"
    /\ config = FromFile
    /\ exit_code = 0
    /\ sheet_reads = <<>>
    /\ loaded_scores = <<>>
    /\ other = NoOtherRun
    /\ app = NoApp

----------------------------------------------------------------------------
(* main() *)

\* StartupOutcome without main's test of the API key
StartupOutcome_NoKeyCheck(cfg) ==
    IF ~cfg.secrets_file THEN "no_secrets_file"
    ELSE IF ~cfg.url THEN "no_spreadsheet_url"
    ELSE IF ~cfg.connects THEN "failed"
    ELSE "started"

\* Config.from_secrets_toml and main's tests of the key and the URL, then the
\* construction of the sheets client: how the start of main ends
StartupOutcome(cfg) ==
    IF ~cfg.secrets_file THEN "no_secrets_file"
    ELSE IF ~cfg.key THEN "no_api_key"
    ELSE IF ~cfg.url THEN "no_spreadsheet_url"
    ELSE IF ~cfg.connects THEN "failed"
    ELSE "started"

\* parse_args, configuration, the clients, the four read_worksheet calls
StartRun ==
    /\ pc \in {"idle", "done"}
    /\ clock < MaxRuns
    /\ clock' = clock + 1
    /\ \E w \in OverrideChoices : week_override' = w
    /\ \E cfg \in ConfigChoices : config' = cfg
    /\ polled' = {}
    /\ poll_log' = <<>>
    /\ sheet_writes' = <<>>
    /\ active_games' = <<>>
    /\ players_to_fetch' = <<>>
    /\ existing_scores' = <<>>
    /\ idx' = 0
    /\ attempt' = 0
    /\ results' = <<>>
    /\ IF StartupOutcome(config') = "started"
       THEN /\ schedule_df' = schedule
            /\ scores_df' = scores
            /\ sheet_reads' = <<"schedule", "players_2", "Picks", "scores">>
            /\ exit_log' = "none"
            /\ exit_code' = StillRunning
            /\ pc' = "reconcile"
       ELSE /\ schedule_df' = <<>>
            /\ scores_df' = <<>>
            /\ sheet_reads' = <<>>
            /\ exit_log' = StartupOutcome(config')
            /\ exit_code' = 1
            /\ pc' = "done"
    /\ UNCHANGED <<schedule, scores, picks, env, now>>
    /\ loaded_scores' = <<>>
    /\ other' = IF OtherActive THEN [other EXCEPT !.overlapped = TRUE] ELSE other
    /\ UNCHANGED app

\* update_game_statuses: one request per week to poll, then the in-place
\* update and, when a row changed, the write of the whole schedule
Reconcile ==
    /\ pc = "reconcile"
    /\ \E answers \in [WeeksToPoll(schedule_df) -> UNION {PollChoices(w) : w \in WeeksToPoll(schedule_df)}] :
          /\ \A w \in WeeksToPoll(schedule_df) : answers[w] \in PollChoices(w)
          /\ LET updated == ApplyStatusUpdates(schedule_df, StatusUpdates(answers)) IN
             /\ polled' = WeeksToPoll(schedule_df)
             /\ poll_log' = answers
             /\ schedule_df' = updated
             /\ IF updated # schedule_df
                THEN /\ schedule' = updated
                     /\ sheet_writes' = Append(sheet_writes, "schedule")
                ELSE UNCHANGED <<schedule, sheet_writes>>
    /\ pc' = "select"
    /\ UNCHANGED <<scores, picks, env, clock, now, week_override, scores_df, active_games,
                   players_to_fetch, existing_scores, idx, attempt, results, exit_log,
                   config, exit_code, sheet_reads>>
    /\ UNCHANGED <<loaded_scores, other>>
    /\ UNCHANGED app

\* get_active_games, and main's return when there is nothing active
SelectActive ==
    /\ pc = "select"
    /\ \E t \in NowChoices :
          /\ now' = t
          /\ active_games' = get_active_games(schedule_df, t)
    /\ IF active_games' = <<>> /\ week_override = NoOverride
       THEN pc' = "done" /\ exit_log' = "no_active" /\ exit_code' = 0
       ELSE pc' = "plan" /\ UNCHANGED <<exit_log, exit_code>>
    /\ poll_log' = <<>>
    /\ UNCHANGED <<schedule, scores, picks, env, clock, week_override, schedule_df, scores_df,
                   polled, sheet_writes, players_to_fetch, existing_scores, idx,
                   attempt, results, config, sheet_reads>>
    /\ UNCHANGED <<loaded_scores, other>>
    /\ UNCHANGED app

\* get_players_to_fetch, and main's return when there is no target
Plan ==
    /\ pc = "plan"
    /\ \E order \in Orders({n \in AllPickedNames(picks) : InLookup(players_df, n)}) :
          players_to_fetch' = get_players_to_fetch(players_df, picks, active_games, scores_df,
                                                   week_override, order)
    /\ IF players_to_fetch' = <<>>
       THEN pc' = "done" /\ exit_log' = "no_players" /\ exit_code' = 0
       ELSE pc' = "update" /\ UNCHANGED <<exit_log, exit_code>>
    /\ UNCHANGED <<schedule, scores, picks, env, clock, now, week_override, schedule_df,
                   scores_df, polled, poll_log, sheet_writes, active_games, existing_scores,
                   idx, attempt, results, config, sheet_reads>>
    /\ UNCHANGED <<loaded_scores, other>>
    /\ UNCHANGED app

----------------------------------------------------------------------------
(* update_scores *)

\* the head of update_scores: the fresh read of the scores sheet
BeginUpdate ==
    /\ pc = "update"
    /\ existing_scores' = DictFromRows(scores)
    /\ idx' = 0
    /\ attempt' = 0
    /\ sheet_reads' = Append(sheet_reads, "scores")
    /\ pc' = "fetch"
    /\ UNCHANGED <<schedule, scores, picks, env, clock, now, week_override, schedule_df,
                   scores_df, polled, poll_log, sheet_writes, active_games, players_to_fetch,
                   results, exit_log, config, exit_code>>
    /\ loaded_scores' = scores
    /\ UNCHANGED other
    /\ UNCHANGED app

\* RetryStats without the bound of range(MAX_RETRIES)
RetryStats_NoLimit ==
    /\ pc = "fetch"
    /\ idx < Len(players_to_fetch)
    /\ [kind |-> "error", body |-> NoBody] \in StatsChoices(players_to_fetch[idx + 1].playerID)
    /\ attempt' = attempt + 1
    /\ UNCHANGED <<schedule, scores, picks, env, clock, now, pc, week_override, schedule_df,
                   scores_df, polled, poll_log, sheet_writes, active_games, players_to_fetch,
                   existing_scores, idx, results, exit_log, config, exit_code, sheet_reads>>
    /\ UNCHANGED <<loaded_scores, other>>
    /\ UNCHANGED app

\* RetryStats that tries again after every request without a result
RetryStats_AnyFailure ==
    /\ pc = "fetch"
    /\ idx < Len(players_to_fetch)
    /\ attempt < MAX_RETRIES - 1
    /\ \E a \in StatsChoices(players_to_fetch[idx + 1].playerID) : a.kind # "ok"
    /\ attempt' = attempt + 1
    /\ UNCHANGED <<schedule, scores, picks, env, clock, now, pc, week_override, schedule_df,
                   scores_df, polled, poll_log, sheet_writes, active_games, players_to_fetch,
                   existing_scores, idx, results, exit_log, config, exit_code, sheet_reads>>
    /\ UNCHANGED <<loaded_scores, other>>
    /\ UNCHANGED app

\* a request of get_player_stats that raises RequestException and is tried again
RetryStats ==
    /\ pc = "fetch"
    /\ idx < Len(players_to_fetch)
    /\ attempt < MAX_RETRIES - 1
    /\ [kind |-> "error", body |-> NoBody] \in StatsChoices(players_to_fetch[idx + 1].playerID)
    /\ attempt' = attempt + 1
    /\ UNCHANGED <<schedule, scores, picks, env, clock, now, pc, week_override, schedule_df,
                   scores_df, polled, poll_log, sheet_writes, active_games, players_to_fetch,
                   existing_scores, idx, results, exit_log, config, exit_code, sheet_reads>>
    /\ UNCHANGED <<loaded_scores, other>>
    /\ UNCHANGED app

\* the request that ends get_player_stats (an answer, or the last failed
\* attempt), followed by the rest of the loop body for this target
FinishStats ==
    /\ pc = "fetch"
    /\ idx < Len(players_to_fetch)
    /\ LET target == players_to_fetch[idx + 1] IN
       \E answer \in StatsChoices(target.playerID) :
          /\ answer.kind = "error" => attempt = MAX_RETRIES - 1
          /\ results' = Append(results, [playerID |-> target.playerID,
                                         gameWeek |-> target.gameWeek,
                                         requests |-> attempt + 1,
                                         answer |-> answer])
          /\ IF StatsOf(answer).present /\ ParseRaises(StatsOf(answer).stats)
             THEN \* the AttributeError leaves update_scores and reaches
                  \* main's "except Exception": sys.exit(1)
                  /\ UNCHANGED existing_scores
                  /\ pc' = "done"
                  /\ exit_log' = "failed"
                  /\ exit_code' = 1
             ELSE /\ existing_scores' = MergeResult(existing_scores, active_games, target, answer, clock)
                  /\ pc' = IF idx + 1 = Len(players_to_fetch) THEN "write" ELSE "fetch"
                  /\ UNCHANGED <<exit_log, exit_code>>
    /\ idx' = idx + 1
    /\ attempt' = 0
    /\ UNCHANGED <<schedule, scores, picks, env, clock, now, week_override, schedule_df,
                   scores_df, polled, poll_log, sheet_writes, active_games, players_to_fetch,
                   config, sheet_reads>>
    /\ UNCHANGED <<loaded_scores, other>>
    /\ UNCHANGED app

\* the tail of update_scores: the whole-table write when the dict is not empty
WriteScores ==
    /\ pc = "write"
    /\ IF existing_scores # <<>>
       THEN /\ scores' = DictValues(existing_scores)
            /\ sheet_writes' = Append(sheet_writes, "scores")
       ELSE UNCHANGED <<scores, sheet_writes>>
    /\ pc' = "done"
    /\ exit_log' = "completed"
    /\ exit_code' = 0
    /\ UNCHANGED <<schedule, picks, env, clock, now, week_override, schedule_df, scores_df,
                   polled, poll_log, active_games, players_to_fetch, existing_scores, idx,
                   attempt, results, config, sheet_reads>>
    /\ UNCHANGED <<loaded_scores, other>>
    /\ UNCHANGED app

Next ==
    \/ StartRun
    \/ Reconcile
    \/ SelectActive
    \/ Plan
    \/ BeginUpdate
    \/ RetryStats
    \/ FinishStats
    \/ WriteScores

Spec == Init /\ [][Next]_vars

----------------------------------------------------------------------------
(* Repeated runs against an unchanged upstream: every run gets the same     *)
(* answer to the same request, reads the same local time and is given the   *)
(* same --week                                                              *)

FixedPollAnswers ==
    [week \in ScheduleWeeks |->
        { a \in PollAnswers[week] :
            \/ a.kind = "error"
            \/ /\ a.kind = "ok"
               /\ {e.gameID : e \in a.body} = GameIdsOfWeek(week)
               /\ \A e \in a.body : e.gameStatus \notin {"In-Progress", "Completed"} }]

PlayerIds == {players_df[i].playerID : i \in LookupRows(players_df)}

FixedEnvs ==
    { [mode |-> "fixed", poll |-> p, stats |-> st, now |-> t, override |-> w] :
        p \in { f \in [ScheduleWeeks -> UNION {FixedPollAnswers[x] : x \in ScheduleWeeks}] :
                   \A x \in ScheduleWeeks : f[x] \in FixedPollAnswers[x] },
        st \in { f \in [PlayerIds -> UNION {StatsAnswers(x) : x \in PlayerIds}] :
                    \A x \in PlayerIds : f[x] \in StatsAnswers(x) },
        t \in NowPoints,
        w \in {NoOverride, "Wildcard"} }

InitTwice ==
    /\ \E s3 \in InitialStatuses : schedule = ScheduleRows("scheduled", "scheduled", s3)
    /\ scores = <<>>
    /\ picks \in PickTables
    /\ env \in FixedEnvs
    /\ clock = 0
    /\ now = 0
    /\ pc = "idle"
    /\ week_override = NoOverride
    /\ schedule_df = <<>>
    /\ scores_df = <<>>
    /\ polled = {}
    /\ poll_log = <<>>
    /\ sheet_writes = <<>>
    /\ active_games = <<>>
    /\ players_to_fetch = <<>>
    /\ existing_scores = <<>>
    /\ idx = 0
    /\ attempt = 0
    /\ results = <<>>
    /\ exit_log = "none"
    /\ config = FromFile
    /\ exit_code = 0
    /\ sheet_reads = <<>>
    /\ loaded_scores = <<>>
    /\ other = NoOtherRun
    /\ app = NoApp

SpecTwice == InitTwice /\ [][Next]_vars

----------------------------------------------------------------------------
(* Runs that are terminated from outside (the job is killed, the machine     *)
(* stops). write_worksheet is worksheet.clear() followed by                  *)
(* worksheet.update(): a run can end between the two calls                   *)

\* the process is ended between two steps of main
Terminate ==
    /\ pc \notin {"idle", "done"}
    /\ pc' = "done"
    /\ exit_log' = "terminated"
    /\ exit_code' = 1
    /\ UNCHANGED <<schedule, scores, picks, env, clock, now, week_override, schedule_df,
                   scores_df, polled, poll_log, sheet_writes, active_games, players_to_fetch,
                   existing_scores, idx, attempt, results, config, sheet_reads>>
    /\ UNCHANGED <<loaded_scores, other>>
    /\ UNCHANGED app

\* update_game_statuses is ended inside write_worksheet("schedule", ...), after
\* worksheet.clear() and before worksheet.update()
TerminateInScheduleWrite ==
    /\ pc = "reconcile"
    /\ \E answers \in [WeeksToPoll(schedule_df) -> UNION {PollChoices(w) : w \in WeeksToPoll(schedule_df)}] :
          /\ \A w \in WeeksToPoll(schedule_df) : answers[w] \in PollChoices(w)
          /\ LET updated == ApplyStatusUpdates(schedule_df, StatusUpdates(answers)) IN
             /\ updated # schedule_df
             /\ polled' = WeeksToPoll(schedule_df)
             /\ poll_log' = <<>>
             /\ schedule_df' = updated
             /\ schedule' = <<>>
             /\ sheet_writes' = Append(sheet_writes, "schedule")
    /\ pc' = "done"
    /\ exit_log' = "terminated"
    /\ exit_code' = 1
    /\ UNCHANGED <<scores, picks, env, clock, now, week_override, scores_df, active_games,
                   players_to_fetch, existing_scores, idx, attempt, results, config,
                   sheet_reads>>
    /\ UNCHANGED <<loaded_scores, other>>
    /\ UNCHANGED app

\* update_scores is ended inside write_worksheet("scores", ...), after
\* worksheet.clear() and before worksheet.update()
TerminateInScoresWrite ==
    /\ pc = "write"
    /\ existing_scores # <<>>
    /\ scores' = <<>>
    /\ sheet_writes' = Append(sheet_writes, "scores")
    /\ pc' = "done"
    /\ exit_log' = "terminated"
    /\ exit_code' = 1
    /\ UNCHANGED <<schedule, picks, env, clock, now, week_override, schedule_df, scores_df,
                   polled, poll_log, active_games, players_to_fetch, existing_scores, idx,
                   attempt, results, config, sheet_reads>>
    /\ UNCHANGED <<loaded_scores, other>>
    /\ UNCHANGED app

NextTerminated ==
    \/ Next
    \/ Terminate
    \/ TerminateInScheduleWrite
    \/ TerminateInScoresWrite

SpecTerminated == Init /\ [][NextTerminated]_vars

----------------------------------------------------------------------------
(* Two invocations against the same sheets: the run above, once, and a      *)
(* second process that executes the same code. The steps of the second are  *)
(* coarser: its start, one step per fetch target and its write              *)

\* lastUpdated of the records of the second invocation
OtherStamp == 0

\* main of the second invocation up to update_scores' read of the scores
\* sheet: the reads, update_game_statuses, get_active_games,
\* get_players_to_fetch
OtherBegin ==
    /\ other.pc = "idle"
    /\ \E answers \in [WeeksToPoll(schedule) -> UNION {PollChoices(w) : w \in WeeksToPoll(schedule)}] :
       \E t \in NowChoices :
       \E order \in Orders({n \in AllPickedNames(picks) : InLookup(players_df, n)}) :
          /\ \A w \in WeeksToPoll(schedule) : answers[w] \in PollChoices(w)
          /\ LET updated == ApplyStatusUpdates(schedule, StatusUpdates(answers))
                 active == get_active_games(updated, t)
                 targets == get_players_to_fetch(players_df, picks, active, scores, NoOverride, order)
             IN /\ schedule' = updated
                /\ now' = t
                /\ other' = IF targets = <<>>
                            THEN [other EXCEPT !.pc = "done"]
                            ELSE [pc |-> "fetch",
                                  overlapped |-> other.overlapped \/ pc \notin {"idle", "done"},
                                  active_games |-> active,
                                  players_to_fetch |-> targets,
                                  loaded_scores |-> scores,
                                  existing_scores |-> DictFromRows(scores),
                                  idx |-> 0]
    /\ UNCHANGED <<scores, picks, env, clock, pc, week_override, schedule_df, scores_df, polled,
                   poll_log, sheet_writes, active_games, players_to_fetch, existing_scores, idx,
                   attempt, results, exit_log, config, exit_code, sheet_reads, loaded_scores>>
    /\ UNCHANGED app

\* the body of update_scores' loop for the next target of the second
\* invocation: what get_player_stats returned, validation, the upsert
OtherFetch ==
    /\ other.pc = "fetch"
    /\ LET target == other.players_to_fetch[other.idx + 1] IN
       \E answer \in StatsChoices(target.playerID) :
          other' = IF StatsOf(answer).present /\ ParseRaises(StatsOf(answer).stats)
                   THEN [other EXCEPT !.pc = "done", !.idx = @ + 1]
                   ELSE [other EXCEPT
                            !.existing_scores = MergeResult(@, other.active_games, target, answer, OtherStamp),
                            !.idx = @ + 1,
                            !.pc = IF other.idx + 1 = Len(other.players_to_fetch) THEN "write" ELSE "fetch"]
    /\ UNCHANGED <<schedule, scores, picks, env, clock, now, pc, week_override, schedule_df,
                   scores_df, polled, poll_log, sheet_writes, active_games, players_to_fetch,
                   existing_scores, idx, attempt, results, exit_log, config, exit_code,
                   sheet_reads, loaded_scores>>
    /\ UNCHANGED app

\* the tail of update_scores in the second invocation
OtherWrite ==
    /\ other.pc = "write"
    /\ IF other.existing_scores # <<>>
       THEN scores' = DictValues(other.existing_scores)
       ELSE UNCHANGED scores
    /\ other' = [other EXCEPT !.pc = "done"]
    /\ UNCHANGED <<schedule, picks, env, clock, now, pc, week_override, schedule_df, scores_df,
                   polled, poll_log, sheet_writes, active_games, players_to_fetch,
                   existing_scores, idx, attempt, results, exit_log, config, exit_code,
                   sheet_reads, loaded_scores>>
    /\ UNCHANGED app

\* the one invocation of the run above
StartFirstRun == clock = 0 /\ StartRun

InitOverlap ==
    /\ \E s3 \in InitialStatuses : schedule = ScheduleRows("scheduled", "scheduled", s3)
    /\ scores = <<>>
    /\ picks \in PickTables
    /\ env = Answering
    /\ clock = 0
    /\ now = 0
    /\ pc = "idle"
    /\ week_override = NoOverride
    /\ schedule_df = <<>>
    /\ scores_df = <<>>
    /\ polled = {}
    /\ poll_log = <<>>
    /\ sheet_writes = <<>>
    /\ active_games = <<>>
    /\ players_to_fetch = <<>>
    /\ existing_scores = <<>>
    /\ idx = 0
    /\ attempt = 0
    /\ results = <<>>
    /\ exit_log = "none"
    /\ config = FromFile
    /\ exit_code = 0
    /\ sheet_reads = <<>>
    /\ loaded_scores = <<>>
    /\ other = [NoOtherRun EXCEPT !.pc = "idle"]
    /\ app = NoApp

NextOverlap ==
    \/ StartFirstRun
    \/ Reconcile
    \/ SelectActive
    \/ Plan
    \/ BeginUpdate
    \/ FinishStats
    \/ WriteScores
    \/ OtherBegin
    \/ OtherFetch
    \/ OtherWrite

SpecOverlap == InitOverlap /\ [][NextOverlap]_vars

----------------------------------------------------------------------------
(* The lineup form of the web app (app.py): sheet "Picks" is the variable picks,
   its column 'User Name' the field User; the clock now counts ticks *)

\* the latest tick of the web app's clock
MaxTick == 3

\* the most rows sheet "Picks" grows to
MaxPicks == 3

PLAYOFF_WEEKS == <<"Wildcard", "Divisional", "Conference", "Super Bowl">>

\* the cutoff of every playoff week, in ticks
GAME_CUTOFF_TIMES ==
    [w \in Range(PLAYOFF_WEEKS) |->
        CASE w = "Wildcard" -> 3
          [] w = "Divisional" -> 5
          [] w = "Conference" -> 7
          [] OTHER -> 9]

\* ttl=30 of load_picks_from_sheet and of its read of the worksheet, in ticks
CacheTtl == 2

Lineup(qb, rb1, rb2, wr1, wr2, te) ==
    [QB |-> qb, RB1 |-> rb1, RB2 |-> rb2, WR1 |-> wr1, WR2 |-> wr2, TE |-> te]

\* the selections the form is tried with
Lineups ==
    { Lineup("Mahomes", "Henry", "Barkley", "Chase", "Jefferson", "Kelce"),
      Lineup("Allen", "Gibbs", "Taylor", "Brown", "Lamb", "Kittle"),
      Lineup("Mahomes", "Gibbs", "Taylor", "Brown", "Lamb", "Kittle"),
      Lineup("Allen", "Gibbs", "Gibbs", "Brown", "Lamb", "Kittle"),
      Lineup("Select a player...", "Gibbs", "Taylor", "Brown", "Lamb", "Kittle") }

AppUsers == {"alice", "bob"}

\* the users logged in to the form
FormUsers == {"alice"}

\* the weeks the week selectbox is tried with
FormWeeks == {"Wildcard", "Divisional"}

\* the weeks submit_lineup is called with: a configured one and one that is not
CallWeeks == {"Wildcard", "Pro Bowl"}

\* the lineups submit_lineup is called with
CallLineups ==
    { Lineup("Mahomes", "Henry", "Barkley", "Chase", "Jefferson", "Kelce"),
      Lineup("Allen", "Gibbs", "Taylor", "Brown", "Lamb", "Kittle") }

\* a row of sheet "Picks" (the Timestamp column is left out)
LineupRow(username, week, l) ==
    [User |-> username, Week |-> week, QB |-> l.QB, RB1 |-> l.RB1, RB2 |-> l.RB2,
     WR1 |-> l.WR1, WR2 |-> l.WR2, TE |-> l.TE]

\* sheet "Picks" when the form opens: another user's lineup, typed with a trailing blank
InitialPicks ==
    << LineupRow("bob", "Wildcard",
                 Lineup("Allen ", "Gibbs", "Taylor", "Brown", "Lamb", "Kittle")) >>

\* str(p).strip() on the names of the model
Strip(name) == IF name = "Allen " THEN "Allen" ELSE name

\* the six cells of a lineup or of a row, as entered
LineupPlayers(row) == {row[position_cols[c]] : c \in DOMAIN position_cols}

get_used_players_for_user(df, username) ==
    {Strip(p) : p \in UNION {LineupPlayers(df[i]) \ {""} :
                               i \in {k \in DOMAIN df : df[k].User = username}}}

validate_lineup(l, used_players) ==
    IF \E c \in DOMAIN position_cols :
           l[position_cols[c]] \in {"", "Select a player..."}
      THEN [ok |-> FALSE, message |-> "Please select"]
    ELSE IF Cardinality({l.RB1, l.RB2, l.WR1, l.WR2}) # 4
      THEN [ok |-> FALSE, message |-> "same player twice"]
    ELSE IF l.RB1 = l.RB2
      THEN [ok |-> FALSE, message |-> "same running back twice"]
    ELSE IF l.WR1 = l.WR2
      THEN [ok |-> FALSE, message |-> "same wide receiver twice"]
    ELSE IF LineupPlayers(l) \cap used_players # {}
      THEN [ok |-> FALSE, message |-> "already used"]
    ELSE [ok |-> TRUE, message |-> ""]

\* can_edit_lineup closing a week only after its cutoff
can_edit_lineup_AfterCutoff(week) ==
    IF week \notin DOMAIN GAME_CUTOFF_TIMES THEN [ok |-> TRUE, message |-> ""]
    ELSE IF now > GAME_CUTOFF_TIMES[week] THEN [ok |-> FALSE, message |-> "closed"]
    ELSE [ok |-> TRUE, message |-> ""]

can_edit_lineup(week) ==
    IF week \notin DOMAIN GAME_CUTOFF_TIMES THEN [ok |-> TRUE, message |-> ""]
    ELSE IF now >= GAME_CUTOFF_TIMES[week] THEN [ok |-> FALSE, message |-> "closed"]
    ELSE [ok |-> TRUE, message |-> ""]

\* the rows of a user and a week, in sheet order
MatchingRows(df, username, week) ==
    {k \in DOMAIN df : df[k].User = username /\ df[k].Week = week}

FirstOf(S) == CHOOSE k \in S : \A m \in S : k <= m

\* submit_lineup on the sheet as it is; raises: the read of the sheet fails
submit_lineup(sheet, username, week, l, is_edit, raises) ==
    LET matching_rows == MatchingRows(sheet, username, week)
        stay(message) == [ok |-> FALSE, message |-> message, wrote |-> FALSE, data |-> sheet]
    IN  IF ~can_edit_lineup(week).ok THEN stay(can_edit_lineup(week).message)
        ELSE IF raises THEN stay("Error submitting lineup")
        ELSE IF is_edit
          THEN IF matching_rows = {} THEN stay("Could not find lineup to edit")
               ELSE [ok |-> TRUE, message |-> "updated", wrote |-> TRUE,
                     data |-> [sheet EXCEPT ![FirstOf(matching_rows)] =
                                  LineupRow(username, week, l)]]
        ELSE [ok |-> TRUE, message |-> "submitted", wrote |-> TRUE,
              data |-> Append(sheet, LineupRow(username, week, l))]

\* st.cache_data serves an entry while it is younger than its ttl
Fresh(entry) == entry.at # NoTime /\ now - entry.at < CacheTtl

\* _conn.read(worksheet="Picks", usecols=..., ttl=30): the connection's own cached read
conn_read(sheet, cache, raises) ==
    IF Fresh(cache) THEN [raised |-> FALSE, df |-> cache.rows, cache |-> cache]
    ELSE IF raises THEN [raised |-> TRUE, df |-> <<>>, cache |-> cache]
    ELSE [raised |-> FALSE, df |-> sheet, cache |-> CacheEntry(now, sheet)]

\* load_picks_from_sheet under @st.cache_data(ttl=30); a failed read gives an empty table
load_picks_from_sheet(sheet, load_cache, read_cache, raises) ==
    IF Fresh(load_cache)
      THEN [df |-> load_cache.rows, load_cache |-> load_cache, read_cache |-> read_cache]
    ELSE LET r == conn_read(sheet, read_cache, raises)
             df == IF r.raised THEN <<>> ELSE r.df
         IN  [df |-> df, load_cache |-> CacheEntry(now, df), read_cache |-> r.cache]

\* the variables of the scoring job, which the web app leaves alone
job_vars == <<schedule, scores, env, clock, pc, week_override, schedule_df,
              scores_df, polled, poll_log, sheet_writes, active_games, players_to_fetch,
              existing_scores, idx, attempt, results, exit_log, config, exit_code,
              sheet_reads, loaded_scores, other>>

Tick ==
    /\ now < MaxTick
    /\ now' = now + 1
    /\ UNCHANGED <<job_vars, picks, app>>

\* a call of submit_lineup with any arguments
CallSubmitLineup ==
    \E username \in AppUsers, week \in CallWeeks, l \in CallLineups,
       is_edit, raises \in BOOLEAN :
        LET r == submit_lineup(picks, username, week, l, is_edit, raises)
        IN  /\ is_edit \/ Len(picks) < MaxPicks
            /\ picks' = r.data
            /\ app' = [app EXCEPT
                   !.load_cache = IF r.ok THEN NoEntry ELSE @,
                   !.last = LineupResult("call", username, week, is_edit, r.ok,
                                         r.message, r.wrote)]
            /\ UNCHANGED <<job_vars, now>>

\* a run of the page script without a click on the submit button
RenderForm ==
    \E raises \in BOOLEAN :
        LET loaded == load_picks_from_sheet(picks, app.load_cache, app.read_cache, raises)
        IN  /\ app' = [app EXCEPT !.load_cache = loaded.load_cache,
                                  !.read_cache = loaded.read_cache]
            /\ UNCHANGED <<job_vars, picks, now>>

\* the run of the page script a click on the submit button starts, with the run
\* st.rerun() starts after a success
FormSubmit ==
    \E username \in FormUsers, week \in FormWeeks, l \in Lineups,
       raises_load, raises_submit, raises_rerun \in BOOLEAN :
        LET loaded == load_picks_from_sheet(picks, app.load_cache, app.read_cache,
                                            raises_load)
            picks_df == loaded.df
            user_week_picks == MatchingRows(picks_df, username, week)
            has_existing == user_week_picks # {}
            current_lineup_players ==
                IF has_existing THEN LineupPlayers(picks_df[FirstOf(user_week_picks)])
                ELSE {}
            validation_used ==
                get_used_players_for_user(picks_df, username) \ current_lineup_players
            valid == validate_lineup(l, validation_used)
            current_used ==
                get_used_players_for_user(picks_df, username) \ current_lineup_players
            conflict_players == LineupPlayers(l) \cap current_used
            r == submit_lineup(picks, username, week, l, has_existing, raises_submit)
            rerun == load_picks_from_sheet(r.data, NoEntry, loaded.read_cache,
                                           raises_rerun)
            refused(message) ==
                /\ picks' = picks
                /\ app' = [load_cache |-> loaded.load_cache,
                           read_cache |-> loaded.read_cache,
                           last |-> LineupResult("form", username, week, has_existing,
                                                 FALSE, message, FALSE)]
        IN  /\ has_existing \/ Len(picks) < MaxPicks
            /\ IF ~can_edit_lineup(week).ok THEN refused(can_edit_lineup(week).message)
               ELSE IF ~valid.ok THEN refused(valid.message)
               ELSE IF conflict_players # {} THEN refused("already been used")
               ELSE IF ~r.ok THEN refused(r.message)
               ELSE /\ picks' = r.data
                    /\ app' = [load_cache |-> rerun.load_cache,
                               read_cache |-> rerun.read_cache,
                               last |-> LineupResult("form", username, week, has_existing,
                                                     TRUE, r.message, TRUE)]
            /\ UNCHANGED <<job_vars, now>>

InitLineup ==
    /\ schedule = ScheduleRows("scheduled", "scheduled", "scheduled")
    /\ scores = <<>>
    /\ picks = InitialPicks
    /\ env = Free
    /\ clock = 0
    /\ now = 0
    /\ pc = "idle"
    /\ week_override = NoOverride
    /\ schedule_df = <<>>
    /\ scores_df = <<>>
    /\ polled = {}
    /\ poll_log = <<>>
    /\ sheet_writes = <<>>
    /\ active_games = <<>>
    /\ players_to_fetch = <<>>
    /\ existing_scores = <<>>
    /\ idx = 0
    /\ attempt = 0
    /\ results = <<>>
    /\ exit_log = "none"
    /\ config = FromFile
    /\ exit_code = 0
    /\ sheet_reads = <<>>
    /\ loaded_scores = <<>>
    /\ other = NoOtherRun
    /\ app = NoApp

NextSubmit ==
    \/ Tick
    \/ CallSubmitLineup

\* calls of submit_lineup with any arguments, at any time
SpecSubmit == InitLineup /\ [][NextSubmit]_vars

NextLineup ==
    \/ Tick
    \/ RenderForm
    \/ FormSubmit

\* users working through the lineup form
SpecLineup == InitLineup /\ [][NextLineup]_vars

----------------------------------------------------------------------------
(* Properties *)

\* the planner has run in the current run
Planned ==
    \/ pc \in {"update", "fetch", "write"}
    \/ pc = "done" /\ exit_log \in {"no_players", "completed"}

\* the rows of a scores table for one (playerID, week)
RowsOf(table, player_id, week) ==
    {table[i] : i \in {j \in DOMAIN table : table[j].playerID = player_id /\ table[j].gameWeek = week}}

\* the game identifiers of the active games of a week
ValidGameIds(week) ==
    {active_games[i].gameID : i \in {j \in DOMAIN active_games : active_games[j].gameWeek = week}}

\* C1: when the scores table read by the run holds a record of (playerID, week)
\* captured as final, the planner's output has no target with that (playerID, week)
C1_FinalNeverPlanned ==
    \A i \in DOMAIN players_to_fetch :
        ~\E j \in DOMAIN scores_df :
            /\ scores_df[j].playerID = players_to_fetch[i].playerID
            /\ scores_df[j].gameWeek = players_to_fetch[i].gameWeek
            /\ scores_df[j].gameStatus = "final"

\* the planner ran on a table with a final record of a player who is picked for
\* that week and whose team has an active game
C1_Witness ==
    /\ Planned
    /\ \E j \in DOMAIN scores_df, i \in DOMAIN picks :
          /\ scores_df[j].gameStatus = "final"
          /\ Lower(picks[i].Week) = Lower(scores_df[j].gameWeek)
          /\ \E n \in PickedNames(picks[i]) :
                /\ InLookup(players_df, n)
                /\ player_lookup(players_df, n).playerID = scores_df[j].playerID
                /\ <<scores_df[j].gameWeek, player_lookup(players_df, n).team>>
                       \in TeamGameKeys(active_games)

\* the answer of a finished target carried stats whose game identifier is
\* empty or is not a game of the active games of the target's week
Rejected(r) ==
    /\ r.answer.kind = "ok"
    /\ \/ r.answer.body.gameID = ""
       \/ r.answer.body.gameID \notin ValidGameIds(r.gameWeek)

C3_OneTargetPerPlayerWeek ==
    /\ \A i, j \in DOMAIN players_to_fetch :
          /\ players_to_fetch[i].playerID = players_to_fetch[j].playerID
          /\ players_to_fetch[i].gameWeek = players_to_fetch[j].gameWeek
          => i = j
    /\ Planned =>
          \A a, b \in DOMAIN picks :
            \A n \in PickedNames(picks[a]) \cap PickedNames(picks[b]) :
              \A w \in ActiveWeeks(active_games, week_override) :
                /\ picks[a].User # picks[b].User
                /\ Lower(picks[a].Week) = Lower(w)
                /\ Lower(picks[b].Week) = Lower(w)
                /\ InLookup(players_df, n)
                /\ <<w, player_lookup(players_df, n).team>> \in TeamGameKeys(active_games)
                /\ ~\E j \in DOMAIN scores_df :
                       /\ scores_df[j].playerID = player_lookup(players_df, n).playerID
                       /\ scores_df[j].gameWeek = w
                       /\ scores_df[j].gameStatus = "final"
                => Cardinality({i \in DOMAIN players_to_fetch :
                                  /\ players_to_fetch[i].playerID = player_lookup(players_df, n).playerID
                                  /\ players_to_fetch[i].gameWeek = w}) = 1

\* two users picked the same player for the week and the planner returned a
\* target for that player
C3_Witness ==
    /\ Planned
    /\ \E a, b \in DOMAIN picks :
          /\ picks[a].User # picks[b].User
          /\ \E n \in PickedNames(picks[a]) \cap PickedNames(picks[b]) :
                /\ InLookup(players_df, n)
                /\ \E i \in DOMAIN players_to_fetch :
                      /\ players_to_fetch[i].playerID = player_lookup(players_df, n).playerID
                      /\ Lower(players_to_fetch[i].gameWeek) = Lower(picks[a].Week)
                      /\ Lower(players_to_fetch[i].gameWeek) = Lower(picks[b].Week)

\* C5: the persisted scores table holds at most one row per (playerID, week)
C5_UniqueScoreKeys ==
    \A i, j \in DOMAIN scores :
        scores[i].playerID = scores[j].playerID /\ scores[i].gameWeek = scores[j].gameWeek
        => i = j

\* a later run fetched and wrote a (playerID, week) that already had a row
C5_Witness ==
    /\ pc = "done"
    /\ clock > 1
    /\ \E i \in DOMAIN scores :
          /\ scores[i].lastUpdated = clock
          /\ RowsOf(scores_df, scores[i].playerID, scores[i].gameWeek) # {}

\* C6: the reconciler requests the games of a week only when the schedule it
\* was given holds a game of that week whose status is not final
C6_NoPollOfFinalWeek ==
    [][pc = "reconcile" =>
         \A w \in polled' :
             \E i \in DOMAIN schedule_df :
                 schedule_df[i].gameWeek = w /\ schedule_df[i].gameStatus # "final"]_vars

\* the reconciler polled one week and left out another one
C6_Witness ==
    /\ pc = "select"
    /\ polled # {}
    /\ ScheduleWeeks \ polled # {}

\* the provider's status names, lower-cased, with the three known spellings
NormalizedStatus(api_status) ==
    IF api_status = "Scheduled" THEN "scheduled"
    ELSE IF api_status = "In Progress" \/ api_status = "In-Progress" THEN "in_progress"
    ELSE IF api_status = "Final" \/ api_status = "Completed" THEN "final"
    ELSE IF api_status = "Postponed" THEN "postponed"
    ELSE api_status

\* C7 as stated: a stored final never becomes in_progress or scheduled again,
\* a stored in_progress never becomes scheduled again
C7_StatusOnlyForward ==
    [][\A i \in DOMAIN schedule :
          /\ schedule[i].gameStatus = "final" =>
                 schedule'[i].gameStatus \notin {"in_progress", "scheduled"}
          /\ schedule[i].gameStatus = "in_progress" =>
                 schedule'[i].gameStatus # "scheduled"]_vars

\* C7 as amended: a stored status changes only to the normalized status the
\* provider returned for that game identifier in the same run
C7_StatusFollowsProvider ==
    [][\A i \in DOMAIN schedule :
          schedule'[i].gameStatus # schedule[i].gameStatus =>
              \E w \in polled' :
                  /\ poll_log'[w].kind = "ok"
                  /\ \E e \in poll_log'[w].body :
                        /\ e.gameID = schedule[i].gameID
                        /\ NormalizedStatus(e.gameStatus) = schedule'[i].gameStatus]_vars

\* the reconciler wrote the schedule after the provider reported a game, stored
\* as in_progress now, under the spelling In-Progress
C7_Witness ==
    /\ pc = "select"
    /\ "schedule" \in Range(sheet_writes)
    /\ \E w \in polled :
          /\ poll_log[w].kind = "ok"
          /\ \E e \in poll_log[w].body, i \in DOMAIN schedule :
                /\ e.gameID = schedule[i].gameID
                /\ e.gameStatus = "In-Progress"
                /\ schedule[i].gameStatus = "in_progress"

\* the last answer of a finished target was a transport/HTTP error
Exhausted(r) == r.answer.kind = "error"

\* C8: at most 3 requests per target; a target whose 3 requests failed keeps
\* its record as it was, and every target of the run is still processed
C8_RetriesBoundedTargetSkipped ==
    /\ attempt < 3
    /\ \A k \in DOMAIN results :
          /\ results[k].requests <= 3
          /\ Exhausted(results[k]) =>
                /\ results[k].requests = 3
                /\ RowsOf(DictValues(existing_scores), results[k].playerID, results[k].gameWeek)
                      = RowsOf(scores_df, results[k].playerID, results[k].gameWeek)
                /\ RowsOf(scores, results[k].playerID, results[k].gameWeek)
                      = RowsOf(scores_df, results[k].playerID, results[k].gameWeek)
    /\ pc \in {"write", "done"} /\ (\E k \in DOMAIN results : Exhausted(results[k])) =>
          /\ Len(results) = Len(players_to_fetch)
          /\ \A k \in DOMAIN results :
                /\ results[k].playerID = players_to_fetch[k].playerID
                /\ results[k].gameWeek = players_to_fetch[k].gameWeek
                /\ results[k].requests >= 1

\* a target failed 3 times and the target after it was fetched and written
C8_Witness ==
    /\ pc = "done"
    /\ \E k \in DOMAIN results :
          /\ Exhausted(results[k])
          /\ results[k].requests = 3
          /\ k + 1 \in DOMAIN results
          /\ results[k + 1].answer.kind = "ok"
          /\ \E row \in RowsOf(scores, results[k + 1].playerID, results[k + 1].gameWeek) :
                row.lastUpdated = clock /\ row.gameID = results[k + 1].answer.body.gameID

\* the target was answered at the third request, with a game of its week
ThirdAttemptSuccess(r) ==
    /\ r.requests = 3
    /\ r.answer.kind = "ok"
    /\ ~Rejected(r)

\* C9: after two failed requests and a third, valid answer the run persists
\* exactly one row of the (playerID, week), holding the values of that answer
C9_ThirdAnswerPersisted ==
    pc = "done" =>
        \A k \in DOMAIN results :
            ThirdAttemptSuccess(results[k]) =>
                LET rows == {i \in DOMAIN scores :
                               /\ scores[i].playerID = results[k].playerID
                               /\ scores[i].gameWeek = results[k].gameWeek}
                    body == results[k].answer.body
                IN /\ Cardinality(rows) = 1
                   /\ \A i \in rows :
                         /\ scores[i].gameID = body.gameID
                         /\ scores[i].fantasyPoints = body.fantasyPoints
                         /\ scores[i].passYards =
                               (IF body.Passing.present THEN body.Passing.passYds ELSE 0)
                         /\ scores[i].lastUpdated = clock

\* a run ended in which a target was answered at the third request with
\* passing stats of a game of its week
C9_Witness ==
    /\ pc = "done"
    /\ \E k \in DOMAIN results :
          /\ ThirdAttemptSuccess(results[k])
          /\ results[k].answer.body.Passing.present

\* C10: the selector returns exactly the games that are in_progress, final, or
\* scheduled with now in [kickoff - 15 min, kickoff + 4 h], in schedule
\* order, and changes neither the sheets nor the schedule it was given
C10_ActiveGamesExact ==
    [][pc = "select" =>
         /\ active_games' =
               SelectSeq(schedule_df,
                         LAMBDA g :
                            \/ g.gameStatus = "in_progress"
                            \/ g.gameStatus = "final"
                            \/ /\ g.gameStatus = "scheduled"
                               /\ g.gameTime # NoTime
                               /\ g.gameTime - 15 <= now'
                               /\ now' <= g.gameTime + 240)
         /\ schedule' = schedule
         /\ scores' = scores
         /\ schedule_df' = schedule_df]_vars

\* the selector ran with one scheduled game on the upper border of its window
\* (kept) and another scheduled game one minute past its own (dropped)
C10_Witness ==
    /\ pc = "plan"
    /\ \E i \in DOMAIN active_games :
          /\ active_games[i].gameStatus = "scheduled"
          /\ now = active_games[i].gameTime + 240
    /\ \E i \in DOMAIN schedule_df :
          /\ schedule_df[i].gameStatus = "scheduled"
          /\ now = schedule_df[i].gameTime + 241
          /\ schedule_df[i] \notin Range(active_games)

NamesOf(player_id) ==
    {players_df[i].playerName : i \in {j \in LookupRows(players_df) : players_df[j].playerID = player_id}}

----------------------------------------------------------------------------
(* Fetch planner and writes: C11 .. C14 *)

\* the team of a target's player has an active game in the target's week
TeamPlays(team, week) ==
    \E i \in DOMAIN active_games :
        /\ active_games[i].gameWeek = week
        /\ team \in {active_games[i].homeTeam, active_games[i].awayTeam}

UpdateEnded == pc = "done" /\ exit_log = "completed"

\* update_scores was left by the exception of a target's answer
UpdateRaised == pc = "done" /\ exit_log = "failed" /\ results # <<>>

\* no target of the run produced an accepted result: every answer was a
\* failure, empty, rejected for its game, or could not be parsed
NoneAccepted ==
    \A k \in DOMAIN results :
        \/ ~Accepted(active_games, [gameWeek |-> results[k].gameWeek], results[k].answer)
        \/ ParseRaises(results[k].answer.body)

\* the number of write_worksheet calls of the run for a sheet
WritesOf(sheet) == Cardinality({i \in DOMAIN sheet_writes : sheet_writes[i] = sheet})

ProviderDiffers(i) ==
    \E w \in polled' :
        /\ poll_log'[w].kind = "ok"
        /\ \E e \in poll_log'[w].body :
              /\ e.gameID = schedule_df[i].gameID
              /\ NormalizedStatus(e.gameStatus) # schedule_df[i].gameStatus

\* C13: the reconciler writes the schedule sheet once when the provider
\* returned for some game a status that differs from the stored one, and the
\* sheet then holds the updated rows; otherwise it issues no schedule write
C13_ScheduleWrittenIffChanged ==
    [][pc = "reconcile" =>
         IF \E i \in DOMAIN schedule_df : ProviderDiffers(i)
         THEN /\ sheet_writes' = Append(sheet_writes, "schedule")
              /\ schedule' = schedule_df'
              /\ schedule' # schedule
         ELSE /\ sheet_writes' = sheet_writes
              /\ schedule' = schedule]_vars

\* the reconciler wrote the schedule once: the provider had returned the stored
\* status for one game and another status for a second game
C13_Witness ==
    /\ pc = "select"
    /\ WritesOf("schedule") = 1
    /\ \E w \in polled :
          /\ poll_log[w].kind = "ok"
          /\ \E e1, e2 \in poll_log[w].body : \E i, j \in DOMAIN schedule :
                /\ e1.gameID = schedule[i].gameID /\ e2.gameID = schedule[j].gameID
                /\ i # j
                /\ NormalizedStatus(e1.gameStatus) = ScheduleRows("scheduled", "scheduled", "")[i].gameStatus
                /\ NormalizedStatus(e2.gameStatus) = "in_progress"
                /\ schedule[j].gameStatus = "in_progress"

\* the weeks of the schedule that hold a game not stored as final
NonFinalWeeks == {schedule_df[i].gameWeek : i \in {j \in DOMAIN schedule_df : schedule_df[j].gameStatus # "final"}}

\* C17: when the request for one week fails, the requests for all other
\* non-final weeks are still issued, and the statuses they returned are
\* applied and persisted
C17_FailedPollIsolated ==
    [][pc = "reconcile" =>
         \A w \in polled' :
             poll_log'[w].kind # "ok" =>
                 \A v \in NonFinalWeeks \ {w} :
                     /\ v \in polled'
                     /\ poll_log'[v].kind = "ok" =>
                            \A e \in poll_log'[v].body : \A i \in DOMAIN schedule_df :
                                e.gameID = schedule_df[i].gameID =>
                                    /\ schedule_df'[i].gameStatus = NormalizedStatus(e.gameStatus)
                                    /\ schedule'[i].gameStatus = NormalizedStatus(e.gameStatus)]_vars

\* the request for the Wildcard week failed and the status the provider
\* returned for the Divisional game was written to the schedule sheet
C17_Witness ==
    /\ pc = "select"
    /\ clock = 1
    /\ "Wildcard" \in polled /\ "Divisional" \in polled
    /\ poll_log["Wildcard"].kind \in {"error", "badstatus"}
    /\ poll_log["Divisional"].kind = "ok"
    /\ [gameID |-> "G3", gameStatus |-> "Final"] \in poll_log["Divisional"].body
    /\ WritesOf("schedule") = 1
    /\ schedule[3].gameStatus = "final"

\* C14: with a week override every resolvable player picked for that week who
\* has no final record is a target, whatever the active games are
C14_OverridePlansPickedPlayers ==
    Planned /\ week_override # NoOverride =>
        \A r \in DOMAIN picks :
            Lower(picks[r].Week) = Lower(week_override) =>
                \A n \in PickedNames(picks[r]) :
                    (/\ InLookup(players_df, n)
                     /\ ~HasFinalScore(scores_df, player_lookup(players_df, n).playerID, week_override))
                    => \E i \in DOMAIN players_to_fetch :
                          /\ players_to_fetch[i].playerID = player_lookup(players_df, n).playerID
                          /\ players_to_fetch[i].gameWeek = week_override

\* C15: whenever a persisted table changes, also in a run that is terminated,
\* its new content is the complete content the run was writing
C15_TablesWholeOrUntouched ==
    [][/\ schedule' = schedule \/ schedule' = schedule_df'
       /\ scores' = scores \/ scores' = DictValues(existing_scores)]_vars

\* C16: a problem with one player (a name that does not resolve, an empty
\* response body, a missing or malformed stat section) does not end the run:
\* every target is processed, the accepted results are persisted and the
\* process exits with status 0
C16_PlayerProblemsIsolated ==
    pc = "done" /\ results # <<>> =>
        /\ exit_code = 0
        /\ Len(results) = Len(players_to_fetch)
        /\ \A k \in DOMAIN results :
              (/\ Accepted(active_games, [gameWeek |-> results[k].gameWeek], results[k].answer)
               /\ ~ParseRaises(results[k].answer.body))
              => \E row \in RowsOf(scores, results[k].playerID, results[k].gameWeek) :
                    /\ row.lastUpdated = clock
                    /\ row.gameID = results[k].answer.body.gameID

----------------------------------------------------------------------------
(* Exit status and configuration: C18 .. C20 *)

\* the run ended on a configuration or connectivity error
FatalStartup ==
    \/ exit_log \in {"no_secrets_file", "no_api_key", "no_spreadsheet_url"}
    \/ exit_log = "failed" /\ ~config.connects

\* C18: the job exits non-zero only on a configuration or connectivity error;
\* a run without active games, without targets or without a score for any
\* target exits with status 0
C18_NonZeroOnlyWhenFatal ==
    pc = "done" /\ clock > 0 =>
        /\ exit_code # 0 => FatalStartup
        /\ exit_log \in {"no_active", "no_players"} => exit_code = 0
        /\ results # <<>> /\ NoneAccepted => exit_code = 0

\* the required configuration is not in the secrets file
ConfigAbsent == ~config.secrets_file \/ ~config.key \/ ~config.url

C20_EnvironmentOnlyStarts ==
    clock > 0 /\ config.env_vars /\ ~config.secrets_file /\ config.connects =>
        /\ sheet_reads # <<>>
        /\ exit_code # 1

----------------------------------------------------------------------------
(* Records captured as final, phases of a run: C21 .. C30 *)

PlannedRunEnded == pc = "done" /\ (Planned \/ UpdateRaised)

\* the rows of the reconciled schedule that hold the final game of a team in
\* the week a pick names
FinalGamesOf(team, pick_week) ==
    {i \in DOMAIN schedule_df :
        /\ Lower(schedule_df[i].gameWeek) = Lower(pick_week)
        /\ team \in {schedule_df[i].homeTeam, schedule_df[i].awayTeam}
        /\ schedule_df[i].gameStatus = "final"}

\* C22: a run without week override plans every picked, resolvable player whose
\* team's game is stored as final and who has no record captured as final;
\* when the provider answers with the identifier of that game, the run
\* persists a record captured as final; a pair with such a record is no target
C22_FinalGameGetsFinalRecord ==
    PlannedRunEnded /\ week_override = NoOverride =>
        /\ \A r \in DOMAIN picks : \A n \in PickedNames(picks[r]) :
              InLookup(players_df, n) =>
                  LET p == player_lookup(players_df, n) IN
                  \A g \in FinalGamesOf(p.team, picks[r].Week) :
                      LET week == schedule_df[g].gameWeek IN
                      ~HasFinalScore(scores_df, p.playerID, week) =>
                          /\ \E i \in DOMAIN players_to_fetch :
                                /\ players_to_fetch[i].playerID = p.playerID
                                /\ players_to_fetch[i].gameWeek = week
                          /\ (\E k \in DOMAIN results :
                                 /\ results[k].playerID = p.playerID
                                 /\ results[k].gameWeek = week
                                 /\ results[k].answer.kind = "ok"
                                 /\ results[k].answer.body.gameID = schedule_df[g].gameID)
                             => \E row \in RowsOf(scores, p.playerID, week) :
                                    row.gameStatus = "final"
        /\ \A i \in DOMAIN players_to_fetch :
              ~HasFinalScore(scores_df, players_to_fetch[i].playerID, players_to_fetch[i].gameWeek)

\* the status the reconciled schedule of the run holds for a game identifier
ReconciledStatus(game_id) ==
    {schedule_df[i].gameStatus : i \in {j \in DOMAIN schedule_df : schedule_df[j].gameID = game_id}}

\* the selector runs on the schedule as reconciled in this run, which
\* is what the schedule sheet holds; a game the provider reported as
\* in_progress in this run is active
C23_SelectorSeesReconciled ==
    [][pc = "select" =>
         /\ schedule_df = schedule
         /\ \A i \in DOMAIN active_games' :
               active_games'[i] \in Range(schedule)
         /\ \A w \in polled :
               poll_log[w].kind = "ok" =>
                   \A e \in poll_log[w].body :
                       NormalizedStatus(e.gameStatus) = "in_progress" =>
                           \E i \in DOMAIN active_games' :
                               /\ active_games'[i].gameID = e.gameID
                               /\ active_games'[i].gameStatus = "in_progress"]_vars

\* the phases of a run follow one another as reconcile, select, plan,
\* fetch, merge: the scores write never precedes the schedule write, targets
\* exist only with an active set, and every record written in the run carries
\* the status the reconciled schedule holds for its game
C23_PhasesInOrder ==
    /\ sheet_writes \in {<<>>, <<"schedule">>, <<"scores">>, <<"schedule", "scores">>}
    /\ pc \in {"reconcile", "select"} =>
          active_games = <<>> /\ players_to_fetch = <<>> /\ results = <<>>
    /\ pc = "plan" => players_to_fetch = <<>> /\ results = <<>>
    /\ results # <<>> => players_to_fetch # <<>> /\ active_games # <<>>
    /\ "scores" \in Range(sheet_writes) => Len(results) = Len(players_to_fetch)
    /\ pc = "done" /\ clock > 0 =>
          \A i \in DOMAIN scores :
              scores[i].lastUpdated = clock => scores[i].gameStatus \in ReconciledStatus(scores[i].gameID)

\* a run wrote the schedule and then the scores; a record carries the status
\* in_progress that the provider reported for its game in this run
C23_Witness ==
    /\ pc = "done"
    /\ clock = 1
    /\ sheet_writes = <<"schedule", "scores">>
    /\ \E i \in DOMAIN scores :
          /\ scores[i].lastUpdated = clock
          /\ scores[i].gameStatus = "in_progress"
          /\ \E j \in DOMAIN scores : scores[j].gameStatus # "in_progress"

\* C23: within one run the selector, the planner, the fetcher and the merger
\* work on the statuses as reconciled in that run, and the scores write never
\* precedes the schedule write
C23_RunWorksOnReconciledStatuses ==
    []C23_PhasesInOrder /\ C23_SelectorSeesReconciled

\* the keys update_scores assigned in the current run
Upserted(player_id, week) ==
    \E k \in DOMAIN results :
        /\ results[k].playerID = player_id
        /\ results[k].gameWeek = week
        /\ Accepted(active_games, [gameWeek |-> week], results[k].answer)
        /\ ~ParseRaises(results[k].answer.body)

C25_ReconcilerChangesOnlyStatus ==
    [][pc # "idle" /\ pc # "done" =>
         /\ Len(schedule') = Len(schedule)
         /\ Len(schedule_df') = Len(schedule_df)
         /\ \A i \in DOMAIN schedule :
               /\ [schedule'[i] EXCEPT !.gameStatus = schedule[i].gameStatus] = schedule[i]
               /\ schedule'[i].gameStatus # schedule[i].gameStatus => ProviderDiffers(i)
         /\ \A i \in DOMAIN schedule_df :
               /\ [schedule_df'[i] EXCEPT !.gameStatus = schedule_df[i].gameStatus] = schedule_df[i]
               /\ schedule_df'[i].gameStatus # schedule_df[i].gameStatus => ProviderDiffers(i)]_vars

\* the reconciler wrote the schedule: the status of one game changed, a game
\* of the same week that the provider did not return kept its status
C25_Witness ==
    /\ pc = "select"
    /\ WritesOf("schedule") = 1
    /\ poll_log["Wildcard"].kind = "ok"
    /\ {e.gameID : e \in poll_log["Wildcard"].body} = {"G1"}
    /\ schedule[1].gameStatus = "final"
    /\ schedule[2].gameStatus = "scheduled"

StoredStatuses == {"scheduled", "in_progress", "final"}

\* the provider strings that the reconciler maps to a stored status
KnownApiStatuses == {"Scheduled", "In Progress", "In-Progress", "Final", "Completed"}

\* C26 as stated: whatever the provider returns, the stored status of every
\* game is scheduled, in_progress or final
C26_StatusInThree ==
    \A i \in DOMAIN schedule : schedule[i].gameStatus \in StoredStatuses

\* C26, amended: the stored status of every game is scheduled, in_progress or
\* final, or the lower-cased form of a string the provider returned for the
\* game that is none of the five strings the reconciler maps
C26_StatusNormalizedOrLowered ==
    \A i \in DOMAIN schedule :
        schedule[i].gameStatus \in
            StoredStatuses
            \cup {Lower(s) : s \in ApiStatuses(schedule[i].gameID) \ KnownApiStatuses}

\* the provider answered "Postponed" for G1 and "Completed" or "Final" for
\* G2: the schedule written holds "postponed" and "final"
C26_Witness ==
    /\ pc = "select"
    /\ WritesOf("schedule") = 1
    /\ schedule[1].gameStatus = "postponed"
    /\ schedule[2].gameStatus = "final"

\* C27: every record persisted by the latest run carries the status that the
\* schedule, as that run reconciled and stored it, holds for the record's
\* game identifier; it is final only if that game is stored as final
C27_CapturedStatusIsStoredStatus ==
    \A i \in DOMAIN scores :
        clock > 0 /\ scores[i].lastUpdated = clock =>
            \E g \in DOMAIN schedule :
                /\ schedule[g].gameID = scores[i].gameID
                /\ scores[i].gameStatus = Lower(schedule[g].gameStatus)
                /\ scores[i].gameStatus = "final" <=> schedule[g].gameStatus = "final"

\* one run persisted two records with different captured statuses, one of
\* them final, each the stored status of its own game
C27_Witness ==
    /\ pc = "done"
    /\ \E i, j \in DOMAIN scores :
          /\ scores[i].lastUpdated = clock
          /\ scores[j].lastUpdated = clock
          /\ scores[i].gameStatus = "final"
          /\ scores[j].gameStatus # "final"
          /\ scores[i].gameID # scores[j].gameID

RunActive == pc \notin {"idle", "done"}

\* the numbers of requests and writes of a run are bounded: one answer per
\* polled week, at most 3 requests for each target and one result per target,
\* at most one write per sheet
BoundedRequestsAndWrites ==
    /\ DOMAIN poll_log \subseteq polled
    /\ attempt < 3
    /\ Len(results) <= Len(players_to_fetch)
    /\ \A k \in DOMAIN results :
          /\ results[k].requests \in 1..3
          /\ results[k].playerID = players_to_fetch[k].playerID
          /\ results[k].gameWeek = players_to_fetch[k].gameWeek
    /\ WritesOf("schedule") <= 1
    /\ WritesOf("scores") <= 1
    /\ pc = "done" /\ clock > 0 => exit_code \in {0, 1}

\* requests for weeks are issued by the reconciler only, and only for weeks
\* that hold a game not stored as final
PollsOnlyNonFinalWeeks ==
    [][polled' # polled => polled' = {} \/ (pc = "reconcile" /\ polled' \subseteq NonFinalWeeks)]_vars

\* the phases of a run, counted from its end
PhasesLeft ==
    CASE pc = "reconcile" -> 6
      [] pc = "select" -> 5
      [] pc = "plan" -> 4
      [] pc = "update" -> 3
      [] pc = "fetch" -> 2
      [] pc = "write" -> 1
      [] OTHER -> 0

\* the requests the fetch loop can still issue
RequestsLeft ==
    IF pc = "fetch" THEN (Len(players_to_fetch) - idx) * MAX_RETRIES - attempt ELSE 0

\* in every phase the process can execute its next statement: each request
\* returns, with an answer or with the failure of its timeout (for the
\* planner: the set it iterates over has an iteration order)
RunCanStep ==
    /\ pc = "reconcile" => ENABLED Reconcile
    /\ pc = "select" => ENABLED SelectActive
    /\ pc = "plan" => Orders({n \in AllPickedNames(picks) : InLookup(players_df, n)}) # {}
    /\ pc = "update" => ENABLED BeginUpdate
    /\ pc = "fetch" => ENABLED (RetryStats \/ FinishStats)
    /\ pc = "write" => ENABLED WriteScores

\* a run that has not ended can take a step, and every step it takes brings
\* it nearer to its end
RunAdvances ==
    /\ []RunCanStep
    /\ [](RunActive => PhasesLeft > 0 /\ RequestsLeft >= 0)
    /\ [][RunActive =>
             \/ PhasesLeft' < PhasesLeft
             \/ PhasesLeft' = PhasesLeft /\ RequestsLeft' < RequestsLeft]_vars

\* C28: every run ends, whatever the provider answers, after at most one
\* request per non-final week and at most 3 requests per target, and after at
\* most one write per sheet
C28_RunTerminatesBounded ==
    /\ []BoundedRequestsAndWrites
    /\ PollsOnlyNonFinalWeeks
    /\ RunAdvances

\* a run ended after it polled two weeks, used all 3 requests for one target
\* and one request for another, and wrote each sheet once
C28_Witness ==
    /\ pc = "done"
    /\ polled = {"Wildcard", "Divisional"}
    /\ sheet_writes = <<"schedule", "scores">>
    /\ \E k, m \in DOMAIN results : results[k].requests = 3 /\ results[m].requests = 1

\* the write of the run above discards or replaces a row that was put on the
\* sheet after update_scores read it
LostUpdateByRun ==
    /\ pc = "write"
    /\ pc' = "done"
    /\ \E i \in DOMAIN scores : scores[i] \notin Range(loaded_scores) /\ scores[i] \notin Range(scores')

\* the same for the write of the second invocation
LostUpdateByOther ==
    /\ other.pc = "write"
    /\ other'.pc = "done"
    /\ \E i \in DOMAIN scores :
          scores[i] \notin Range(other.loaded_scores) /\ scores[i] \notin Range(scores')

\* a record captured as final is removed from the sheet or altered
FinalRecordLost ==
    \E i \in DOMAIN scores : scores[i].gameStatus = "final" /\ scores[i] \notin Range(scores')

\* C29: a whole-table write of the scores discards or replaces a record that
\* was persisted after the writer read the table, or a record captured as
\* final, only when the two invocations were active at the same time; with
\* one active invocation at a time no such step is taken
C29_LostUpdateOnlyWhenOverlapping ==
    [][LostUpdateByRun \/ LostUpdateByOther \/ FinalRecordLost => other.overlapped]_vars

\* both invocations have ended: the run above persisted a record captured as
\* final, and the sheet now holds for the same player and week the record of
\* the second invocation, captured as not final
C29_Witness ==
    /\ pc = "done"
    /\ other.pc = "done"
    /\ other.overlapped
    /\ "scores" \in Range(sheet_writes)
    /\ \E k \in DOMAIN existing_scores :
          LET r == existing_scores[k].value IN
          /\ r.lastUpdated = clock
          /\ r.gameStatus = "final"
          /\ r \notin Range(scores)
          /\ \E j \in DOMAIN scores :
                /\ scores[j].playerID = r.playerID
                /\ scores[j].gameWeek = r.gameWeek
                /\ scores[j].lastUpdated = OtherStamp
                /\ scores[j].gameStatus # "final"

\* every game on the schedule sheet is stored as final, and every picked name
\* that resolves to a player whose team has a game in the week of the pick
\* has a record captured as final on the scores sheet
Settled ==
    /\ schedule # <<>>
    /\ \A g \in DOMAIN schedule : schedule[g].gameStatus = "final"
    /\ \A r \in DOMAIN picks : \A n \in PickedNames(picks[r]) :
          (/\ InLookup(players_df, n)
           /\ \E g \in DOMAIN schedule :
                 /\ Lower(schedule[g].gameWeek) = Lower(picks[r].Week)
                 /\ player_lookup(players_df, n).team \in {schedule[g].homeTeam, schedule[g].awayTeam})
          => \E j \in DOMAIN scores :
                 /\ scores[j].playerID = player_lookup(players_df, n).playerID
                 /\ Lower(scores[j].gameWeek) = Lower(picks[r].Week)
                 /\ scores[j].gameStatus = "final"

\* the run has issued no request and written no sheet
Quiet ==
    /\ polled = {}
    /\ results = <<>>
    /\ attempt = 0
    /\ players_to_fetch = <<>>
    /\ sheet_writes = <<>>

\* C30: from a state in which all games are final and all picked players
\* with a game have a final record, a run without week override takes no step
\* that issues a request to the provider or writes a sheet, and leaves both
\* sheets as they are
C30_SettledRunIsNoOp ==
    [][(/\ Settled
        /\ pc \in {"idle", "done"} \/ (week_override = NoOverride /\ Quiet)
        /\ week_override' = NoOverride)
       => Quiet' /\ schedule' = schedule /\ scores' = scores /\ Settled']_vars

\* the second run started on settled sheets that hold records, found its
\* configuration, and ended without a request and without a write
C30_Witness ==
    /\ clock = 2
    /\ pc = "done"
    /\ exit_log \in {"no_active", "no_players"}
    /\ week_override = NoOverride
    /\ Settled
    /\ Quiet
    /\ scores_df = scores
    /\ Len(scores) >= 2
    /\ sheet_reads # <<>>

----------------------------------------------------------------------------
(* The game of a record, retries of a request: C31, C32 *)

\* the team of the record's player is the home or the away team of the game
\* whose identifier the record carries
OwnGame(row) ==
    \E g \in DOMAIN schedule :
        /\ schedule[g].gameID = row.gameID
        /\ player_lookup(players_df, row.playerName).team
               \in {schedule[g].homeTeam, schedule[g].awayTeam}

\* C31: the game of every persisted record is a game of the team of the
\* record's player, so that the captured status is that of the player's own
\* game
C31_RecordIsOwnGame ==
    \A i \in DOMAIN scores : OwnGame(scores[i])

\* get_player_stats returned None for a response that arrived: an API status
\* code other than 200, or an empty body
NoResult(r) == r.answer.kind \in {"badstatus", "empty"}

\* requests for the player can raise a RequestException
CanRaise(player_id) == \E a \in StatsChoices(player_id) : a.kind = "error"

\* C32: another attempt follows only a request that raised; a response with
\* an API status code other than 200 or with an empty body is the last
\* request for the target, the first one unless requests raised before it,
\* and the target's record stays as it was
C32_OnlyExceptionsRetried ==
    /\ [](\A k \in DOMAIN results :
             NoResult(results[k]) =>
                 /\ results[k].requests = 1 \/ CanRaise(results[k].playerID)
                 /\ RowsOf(DictValues(existing_scores), results[k].playerID, results[k].gameWeek)
                       = RowsOf(scores_df, results[k].playerID, results[k].gameWeek)
                 /\ RowsOf(scores, results[k].playerID, results[k].gameWeek)
                       = RowsOf(scores_df, results[k].playerID, results[k].gameWeek))
    /\ [][/\ attempt' > attempt => CanRaise(players_to_fetch[idx + 1].playerID)
          /\ Len(results') > Len(results) /\ NoResult(Last(results')) =>
                /\ Last(results').requests = attempt + 1
                /\ idx' = idx + 1
                /\ attempt' = 0
                /\ existing_scores' = existing_scores]_vars

\* a run ended in which one target got an API status code other than 200 at
\* its first and only request, and another target got it at the request that
\* followed one that raised
C32_Witness ==
    /\ pc = "done"
    /\ exit_log = "completed"
    /\ \E k, m \in DOMAIN results :
          /\ NoResult(results[k]) /\ results[k].requests = 1
          /\ ~CanRaise(results[k].playerID)
          /\ NoResult(results[m]) /\ results[m].requests = 2

----------------------------------------------------------------------------
(* Closed weeks and missing rows in submit_lineup: C33 *)

\* the cutoff of the week is configured and has been reached
CutoffReached(week) == week \in DOMAIN GAME_CUTOFF_TIMES /\ now >= GAME_CUTOFF_TIMES[week]

\* the step is a call of submit_lineup, described by the result it leaves
SubmitCalled == (app'.last # app.last \/ picks' # picks) /\ app'.last.op = "call"

\* the call returned a failure and left sheet "Picks" alone
Refused == ~app'.last.ok /\ ~app'.last.wrote /\ picks' = picks

\* C33: a call of submit_lineup for a week whose configured cutoff has been reached
\* returns a failure and writes nothing to sheet "Picks", for a new submission and
\* for an edit alike; so does an edit when no row of that user and week exists
C33_ClosedOrMissingRefused ==
    [][SubmitCalled =>
          /\ CutoffReached(app'.last.week) => Refused
          /\ (app'.last.is_edit
                /\ MatchingRows(picks, app'.last.username, app'.last.week) = {}) => Refused]_vars

\* an edit of a lineup that is on the sheet was refused at the very tick of the cutoff
C33_Witness ==
    /\ app.last.op = "call"
    /\ app.last.is_edit
    /\ MatchingRows(picks, app.last.username, app.last.week) # {}
    /\ app.last.week \in DOMAIN GAME_CUTOFF_TIMES
    /\ now = GAME_CUTOFF_TIMES[app.last.week]
    /\ ~app.last.ok
    /\ ~app.last.wrote

----------------------------------------------------------------------------
(* The one-and-done rule of the lineup form: C34 *)

\* the users all of whose lineups came through the form
FormOnlyUsers == FormUsers \ {InitialPicks[i].User : i \in DOMAIN InitialPicks}

\* C34: after any lineups submitted and edited through the lineup form by a user, no
\* player name appears in lineups of that user for two different weeks
C34_OneAndDone ==
    \A i, j \in DOMAIN picks :
        (/\ picks[i].User \in FormOnlyUsers
         /\ picks[i].User = picks[j].User
         /\ picks[i].Week # picks[j].Week)
            => LineupPlayers(picks[i]) \cap LineupPlayers(picks[j]) = {}

====
